---- MODULE Spec2Model ----
(***************************************************************************)
(* Playback-state synchronisation engine of the Music Companion Widget     *)
(* server (src/server/index.js): the poll loop, the significance           *)
(* classifier of pollCurrentTrack, the broadcast hub and the greeting of   *)
(* newly connected observers.                                              *)
(*                                                                         *)
(* JavaScript values are encoded as follows.                               *)
(*   - an optional value (undefined / null / absent field) is the empty    *)
(*     tuple <<>>, a present value v is the one-element tuple <<v>>;       *)
(*   - a snapshot is a record with kind "snap"; the adapter result null is *)
(*     the record Null;                                                    *)
(*   - strings are TLA+ strings, so the template literal                   *)
(*     `${track.title}-${track.artist}` is computed by concatenation.      *)
(***************************************************************************)
EXTENDS Integers, Sequences, FiniteSets, TLC

(***************************************************************************)
(* Bounds of the model.                                                    *)
(***************************************************************************)
MaxPolls == 3
MaxInFlight == 2
MaxConns == 2
MaxStarts == 3

Conns == 1..MaxConns

(***************************************************************************)
(* Program constants of the classifier.                                    *)
(***************************************************************************)
ExpectedAdvanceMs == 1500
SeekThresholdMs == 2500

(***************************************************************************)
(* Snapshots.                                                              *)
(***************************************************************************)
Null == [kind |-> "null"]

NoPoll == [kind |-> "nopoll"]

Snap(title, artist, playing, progress) ==
    [kind |-> "snap", playing |-> playing, title |-> <<title>>,
     artist |-> <<artist>>, progress |-> <<progress>>, error |-> <<>>,
     duration |-> <<200000>>]

\* { playing: false, error: ... } : no title, no artist, no progress
ErrorSnapshot(msg) ==
    [kind |-> "snap", playing |-> FALSE, title |-> <<>>,
     artist |-> <<>>, progress |-> <<>>, error |-> <<msg>>,
     duration |-> <<>>]

\* (title, artist) pairs the media session can report
TrackPairs ==
    { <<"A", "X">>, <<"A-B", "X">>, <<"A", "B-X">>,
      <<"undefined", "undefined">>, <<"", "">> }

ProgressValues == {0, 1000, 2500, 2501, 4000, 4001, 10000, 11200, 20000}

\* what WindowsMediaProvider.getCurrentTrack resolves to
AdapterResults ==
    { Snap(p[1], p[2], pl, pr) : p \in TrackPairs, pl \in BOOLEAN, pr \in ProgressValues }
      \cup { ErrorSnapshot("PowerShell error") }

\* the results pollCurrentTrack distinguishes: a snapshot or a falsy value
PollResults == AdapterResults \cup { Null }

\* the results used together with observers and their inboxes
ServerResults ==
    { Null, ErrorSnapshot("PowerShell error"),
      Snap("A", "X", TRUE, 0), Snap("A", "X", TRUE, 1000),
      Snap("A", "X", FALSE, 1000) }

(***************************************************************************)
(* JavaScript helpers.                                                     *)
(***************************************************************************)
\* String(x) inside a template literal: undefined prints as "undefined"
Str(opt) == IF opt = <<>> THEN "undefined" ELSE opt[1]

\* const trackId = track ? `${track.title}-${track.artist}` : null
TrackIdOf(track) ==
    IF track = Null THEN <<>>
    ELSE << Str(track.title) \o "-" \o Str(track.artist) >>

\* track.progress || 0
ActualProgress(track) ==
    IF track.progress = <<>> THEN 0 ELSE track.progress[1]

Abs(n) == IF n < 0 THEN -n ELSE n

\* !track || !track.title  (the widget's test for "no media")
Titled(track) ==
    /\ track.kind = "snap"
    /\ track.title # <<>>
    /\ track.title[1] # ""

Untitled(track) == track.kind = "snap" /\ ~Titled(track)

\* JSON.stringify({ type: 'track', data: track })
TrackMessage(track) == [type |-> "track", data |-> track]

VARIABLES
    currentTrack,      \* let currentTrack
    pollingInterval,   \* let pollingInterval: <<>> or <<timer>>
    lastTrackId,       \* let lastTrackId: <<>> (null) or <<string>>
    lastPlayingState,  \* let lastPlayingState: <<>> (null) or <<bool>>
    lastProgressMs,    \* let lastProgressMs: <<>> (null) or <<int>>
    clients,           \* const clients = new Set()
    readyState,        \* ws.readyState of each connection
    inbox,             \* what has been sent on each connection, in order
    inFlight,          \* polls awaiting mediaProvider.getCurrentTrack()
    nDone,             \* number of polls whose adapter call has returned
    prevTrack,         \* result of the poll before the last completed one
    decision,          \* the flags computed by the last completed poll
    nBroadcasts,       \* number of calls of broadcast() by polls
    lastBroadcast,     \* <<>> or <<message>> of the last call of broadcast()
    idleRun,           \* current run of untitled snapshots after a titled one
    pollOutcome,       \* how the last finished poll ended
    sendThrows,        \* connections whose send() throws
    now,               \* Date.now() in ms
    wCurrentTrack,     \* widget: this.currentTrack
    wIsPlaying,        \* widget: this.isPlaying
    syncedProgressMs,  \* widget: this.syncedProgressMs
    syncedAtTime,      \* widget: this.syncedAtTime
    idleShown,         \* widget: idle-state element displayed
    shownProgress,     \* widget: progress last written by updateProgressDisplay
    wRead,             \* widget: number of messages of its connection handled
    credentials,       \* spotify: clientId && clientSecret
    accessToken,       \* spotify: this.accessToken, <<>> (null) or <<token>>
    refreshToken,      \* spotify: this.refreshToken, <<>> (null) or <<token>>
    tokenExpiry,       \* spotify: this.tokenExpiry, <<>> (null) or <<ms>>
    platform,          \* process.platform
    lastTrack,         \* windows: this.lastTrack
    playbackStartTime, \* windows: this.playbackStartTime, <<>> (null) or <<ms>>
    adapterResult,     \* how the last call of an adapter's getCurrentTrack ended
    uploadResponse,    \* how the last POST /api/themes/upload was answered
    currentProvider,   \* multi-provider server: let currentProvider
    providerResponse,  \* status of the last POST /api/provider, 0 before any
    queried,           \* multi-provider server: provider names read by polls in flight
    activeTimers,      \* interval timers that are armed
    nextTimer,         \* id the next setInterval returns
    tickParity,        \* parity of the number of polls started by ticks
    wLastTrackId,      \* widget (drift-gated revision): this.lastTrackId
    wasPlaying,        \* widget (drift-gated revision): this.wasPlaying
    nStarted,          \* number of polls started so far
    pending,           \* polls awaiting the adapter, numbered in the order they started
    holds,             \* number of the poll whose result currentTrack holds, 0 before any
    wsState,           \* widget: this.ws is "connecting", "open" or "closed"
    wConn,             \* number of the widget's connection at the server, 0 when it has none
    wHandled,          \* widget: number of messages of this.ws handled by onmessage
    reconnectTimers,   \* widget: pending setTimeout(() => this.connectWebSocket(), 3000)
    attemptFailed,     \* an attempt to connect has failed since the last drop
    accepting,         \* the server accepts connections
    outages,           \* number of times the server stopped accepting connections
    themesDir          \* files of THEMES_DIR: file name -> <<>> (absent) or <<content>>

vars == << currentTrack, pollingInterval, lastTrackId, lastPlayingState,
           lastProgressMs, clients, readyState, inbox, inFlight, nDone,
           prevTrack, decision, nBroadcasts, lastBroadcast, idleRun,
           pollOutcome, sendThrows, now, wCurrentTrack, wIsPlaying, syncedProgressMs,
           syncedAtTime, idleShown, shownProgress, wRead,
           credentials, accessToken, refreshToken, tokenExpiry, platform,
           lastTrack, playbackStartTime, adapterResult,
           uploadResponse, currentProvider, providerResponse, queried,
           activeTimers, nextTimer, tickParity,
           wLastTrackId, wasPlaying,
           nStarted, pending, holds,
           wsState, wConn, wHandled, reconnectTimers, attemptFailed, accepting, outages,
           themesDir >>

routeVars == << uploadResponse, currentProvider, providerResponse, queried >>
timerVars == << activeTimers, nextTimer, tickParity >>
gatedVars == << wLastTrackId, wasPlaying >>
orderVars == << nStarted, pending, holds >>
reconnectVars == << wsState, wConn, wHandled, reconnectTimers, attemptFailed, accepting, outages >>
storeVars == << themesDir >>
adapterVars == << credentials, accessToken, refreshToken, tokenExpiry, platform,
                  lastTrack, playbackStartTime, adapterResult >>
widgetVars == << wCurrentTrack, wIsPlaying, syncedProgressMs, syncedAtTime,
                 idleShown, shownProgress, wRead >>
serverVars == << currentTrack, pollingInterval, lastTrackId, lastPlayingState,
                 lastProgressMs, clients, readyState, inbox, inFlight, nDone,
                 prevTrack, decision, nBroadcasts, lastBroadcast, idleRun,
                 pollOutcome, sendThrows >>
trackerVars == << currentTrack, lastTrackId, lastPlayingState, lastProgressMs >>
hubVars == << clients, readyState, inbox >>
ghostVars == << prevTrack, decision, nBroadcasts, lastBroadcast, idleRun >>

\* Date.now() when the model starts; any positive epoch time
StartTime == 5000

NoDecision ==
    [isNewTrack |-> FALSE, playStateChanged |-> FALSE,
     userSeeked |-> FALSE, shouldBroadcast |-> FALSE]

NoCall == [provider |-> "none", outcome |-> "none", value |-> Null, failure |-> FALSE]

NoUpload == [status |-> 0, stored |-> FALSE, file |-> Null]

\* the file names uploads are stored under; THEMES_DIR starts without them
StoredNames == {"theme.html", "theme.txt"}

NoThemes == [n \in StoredNames |-> <<>>]

\* the server, the widget and the fields the providers' constructors set
InitProgram ==
    /\ themesDir = NoThemes
    /\ wsState = "connecting"
    /\ wConn = 0
    /\ wHandled = 0
    /\ reconnectTimers = 0
    /\ attemptFailed = FALSE
    /\ accepting = TRUE
    /\ outages = 0
    /\ nStarted = 0
    /\ pending = {}
    /\ holds = 0
    /\ wLastTrackId = <<>>
    /\ wasPlaying = FALSE
    /\ accessToken = <<>>
    /\ refreshToken = <<>>
    /\ tokenExpiry = <<>>
    /\ lastTrack = Null
    /\ playbackStartTime = <<>>
    /\ adapterResult = NoCall
    /\ uploadResponse = NoUpload
    /\ currentProvider = "windows"
    /\ providerResponse = 0
    /\ queried = <<>>
    /\ activeTimers = {}
    /\ nextTimer = 1
    /\ tickParity = 0
    /\ currentTrack = Null
    /\ pollingInterval = <<>>
    /\ lastTrackId = <<>>
    /\ lastPlayingState = <<>>
    /\ lastProgressMs = <<>>
    /\ clients = {}
    /\ readyState = [c \in Conns |-> "NONE"]
    /\ inbox = [c \in Conns |-> <<>>]
    /\ inFlight = 0
    /\ nDone = 0
    /\ prevTrack = NoPoll
    /\ decision = NoDecision
    /\ nBroadcasts = 0
    /\ lastBroadcast = <<>>
    /\ idleRun = [len |-> 0, bcasts |-> 0]
    /\ pollOutcome = "none"
    /\ sendThrows = {}
    /\ now = StartTime
    /\ wCurrentTrack = Null
    /\ wIsPlaying = FALSE
    /\ syncedProgressMs = 0
    /\ syncedAtTime = 0
    /\ idleShown = FALSE
    /\ shownProgress = 0
    /\ wRead = 0

\* the widget's host: Windows, no Spotify credentials in the environment
Init ==
    /\ InitProgram
    /\ credentials = FALSE
    /\ platform = "win32"

(***************************************************************************)
(* Broadcast hub.                                                          *)
(***************************************************************************)
\* the forEach of broadcast stops at the first client whose send() throws:
\* c is reached only if no earlier OPEN client in the Set throws
Reached(c) ==
    \A b \in clients : (b < c /\ readyState[b] = "OPEN") => b \notin sendThrows

\* a broadcast whose message overtakes what was sent before it
Broadcast_Overtakes(message) ==
    [c \in Conns |->
        IF c \in clients /\ readyState[c] = "OPEN" /\ Reached(c)
           /\ c \notin sendThrows
        THEN << message >> \o inbox[c]
        ELSE inbox[c]]

\* a broadcast that does not look at readyState
Broadcast_IgnoresReadyState(message) ==
    [c \in Conns |->
        IF c \in clients /\ Reached(c) /\ c \notin sendThrows
        THEN Append(inbox[c], message)
        ELSE inbox[c]]

\* clients.forEach(client => { if (client.readyState === 1) client.send(data) })
Broadcast(message) ==
    [c \in Conns |->
        IF c \in clients /\ readyState[c] = "OPEN" /\ Reached(c)
           /\ c \notin sendThrows
        THEN Append(inbox[c], message)
        ELSE inbox[c]]

\* a greeting that always sends, also when currentTrack is null
Greeting_Always == << TrackMessage(currentTrack) >>

\* a greeting that replays the last broadcast message
Greeting_LastBroadcast ==
    IF lastBroadcast # <<>> /\ lastBroadcast[1].data # Null
    THEN lastBroadcast
    ELSE <<>>

\* if (currentTrack) ws.send(JSON.stringify({ type: 'track', data: currentTrack }))
Greeting ==
    IF currentTrack # Null
    THEN << TrackMessage(currentTrack) >>
    ELSE <<>>

\* wss.on('connection', ws => ...); connections are numbered in the order
\* in which they arrive, which is the iteration order of the clients Set
Connects(c) ==
    /\ readyState[c] = "NONE"
    /\ \A d \in Conns : d < c => readyState[d] # "NONE"
    /\ clients' = clients \cup {c}
    /\ readyState' = [readyState EXCEPT ![c] = "OPEN"]
    /\ inbox' = [inbox EXCEPT ![c] = @ \o Greeting]
    /\ UNCHANGED << trackerVars, pollingInterval, inFlight, nDone, ghostVars >>
    /\ UNCHANGED << pollOutcome, sendThrows, now, widgetVars, adapterVars, storeVars, orderVars, gatedVars, routeVars, timerVars >>

\* a connection of an observer other than the reconnecting widget
Connect(c) ==
    /\ Connects(c)
    /\ UNCHANGED reconnectVars

\* the peer starts the closing handshake: the socket is no longer OPEN but
\* its 'close' event has not fired yet
BeginClose(c) ==
    /\ readyState[c] = "OPEN"
    /\ readyState' = [readyState EXCEPT ![c] = "CLOSING"]
    /\ UNCHANGED << trackerVars, pollingInterval, clients, inbox, inFlight,
                    nDone, ghostVars >>
    /\ UNCHANGED << pollOutcome, sendThrows, now, widgetVars, adapterVars, storeVars, reconnectVars, orderVars, gatedVars, routeVars, timerVars >>

\* a close handler that leaves the connection in the set
Close_KeepsClient(c) ==
    /\ readyState[c] \in {"OPEN", "CLOSING"}
    /\ readyState' = [readyState EXCEPT ![c] = "CLOSED"]
    /\ clients' = clients
    /\ UNCHANGED << trackerVars, pollingInterval, inbox, inFlight, nDone,
                    ghostVars >>
    /\ UNCHANGED << pollOutcome, sendThrows, now, widgetVars, adapterVars, storeVars, reconnectVars, orderVars, gatedVars, routeVars, timerVars >>

\* ws.on('close', () => clients.delete(ws))
Close(c) ==
    /\ readyState[c] \in {"OPEN", "CLOSING"}
    /\ readyState' = [readyState EXCEPT ![c] = "CLOSED"]
    /\ clients' = clients \ {c}
    /\ UNCHANGED << trackerVars, pollingInterval, inbox, inFlight, nDone,
                    ghostVars >>
    /\ UNCHANGED << pollOutcome, sendThrows, now, widgetVars, adapterVars, storeVars, reconnectVars, orderVars, gatedVars, routeVars, timerVars >>

(***************************************************************************)
(* Poll loop.                                                              *)
(***************************************************************************)
\* startPolling(), called once from the listen callback: arms the interval
\* timer and issues the initial poll
StartsPolling ==
    /\ pollingInterval = <<>>
    /\ pollingInterval' = << nextTimer >>
    /\ activeTimers' = { nextTimer }
    /\ nextTimer' = nextTimer + 1
    /\ inFlight' = inFlight + 1
    /\ UNCHANGED << trackerVars, hubVars, nDone, ghostVars, tickParity >>
    /\ UNCHANGED << pollOutcome, sendThrows, now, widgetVars, adapterVars, storeVars, reconnectVars, gatedVars, routeVars >>

\* startPolling() where the polls are not told apart
StartPolling ==
    /\ StartsPolling
    /\ UNCHANGED orderVars

\* a restart that arms a new timer without clearing the old one
RestartPolling_NoClear ==
    /\ pollingInterval # <<>>
    /\ nextTimer <= MaxStarts
    /\ inFlight < MaxInFlight
    /\ nDone + inFlight < MaxPolls
    /\ activeTimers' = activeTimers \cup { nextTimer }
    /\ pollingInterval' = << nextTimer >>
    /\ nextTimer' = nextTimer + 1
    /\ inFlight' = inFlight + 1
    /\ UNCHANGED << trackerVars, hubVars, nDone, ghostVars, tickParity >>
    /\ UNCHANGED << pollOutcome, sendThrows, now, widgetVars, adapterVars, storeVars, reconnectVars, orderVars, gatedVars, routeVars >>

\* startPolling() called while the loop is running: clearInterval of the
\* timer held in pollingInterval, a new timer, and a poll at once
RestartPolling ==
    /\ pollingInterval # <<>>
    /\ nextTimer <= MaxStarts
    /\ inFlight < MaxInFlight
    /\ nDone + inFlight < MaxPolls
    /\ activeTimers' = (activeTimers \ { pollingInterval[1] }) \cup { nextTimer }
    /\ pollingInterval' = << nextTimer >>
    /\ nextTimer' = nextTimer + 1
    /\ inFlight' = inFlight + 1
    /\ UNCHANGED << trackerVars, hubVars, nDone, ghostVars, tickParity >>
    /\ UNCHANGED << pollOutcome, sendThrows, now, widgetVars, adapterVars, storeVars, reconnectVars, orderVars, gatedVars, routeVars >>

\* a tick of setInterval(pollCurrentTrack, 1000): pollCurrentTrack runs up
\* to its await
Ticks ==
    /\ pollingInterval # <<>>
    /\ inFlight < MaxInFlight
    /\ nDone + inFlight < MaxPolls
    /\ inFlight' = inFlight + 1
    /\ UNCHANGED << trackerVars, hubVars, pollingInterval, nDone, ghostVars >>
    /\ UNCHANGED << pollOutcome, sendThrows, now, widgetVars, adapterVars, storeVars, reconnectVars, gatedVars, routeVars, timerVars >>

\* a tick where the polls are not told apart
Tick ==
    /\ Ticks
    /\ UNCHANGED orderVars

IsNewTrack(track) == TrackIdOf(track) # lastTrackId

\* a change detector that only notices a pause, not a resume
PlayStateChanged_PauseOnly(track) ==
    /\ lastPlayingState # <<>>
    /\ lastPlayingState[1]
    /\ (track = Null \/ ~track.playing)

PlayStateChanged(track) ==
    /\ lastPlayingState # <<>>
    /\ (track = Null \/ lastPlayingState[1] # track.playing)

\* an expectation that forgets the advance of a playing track
ExpectedProgress_NoAdvance == lastProgressMs[1]

ExpectedProgress ==
    IF lastPlayingState # <<>> /\ lastPlayingState[1]
    THEN lastProgressMs[1] + ExpectedAdvanceMs
    ELSE lastProgressMs[1]

\* a seek detector whose threshold is inclusive
UserSeeked_Inclusive(track) ==
    /\ track # Null
    /\ lastProgressMs # <<>>
    /\ ~IsNewTrack(track)
    /\ Abs(ActualProgress(track) - ExpectedProgress) >= SeekThresholdMs

UserSeeked(track) ==
    /\ track # Null
    /\ lastProgressMs # <<>>
    /\ ~IsNewTrack(track)
    /\ Abs(ActualProgress(track) - ExpectedProgress) > SeekThresholdMs

\* a decision without the first-observation clause
ShouldBroadcast_NoFirstClause(track) ==
    \/ IsNewTrack(track)
    \/ PlayStateChanged(track)
    \/ UserSeeked(track)

ShouldBroadcast(track) ==
    \/ IsNewTrack(track)
    \/ PlayStateChanged(track)
    \/ UserSeeked(track)
    \/ lastTrackId = <<>>

\* bookkeeping of the run of untitled snapshots that follows a titled one
NextIdleRun(track, sent) ==
    IF Untitled(track)
    THEN IF Titled(currentTrack)
         THEN [len |-> 1, bcasts |-> IF sent THEN 1 ELSE 0]
         ELSE IF idleRun.len > 0
              THEN [len |-> idleRun.len + 1,
                    bcasts |-> idleRun.bcasts + IF sent THEN 1 ELSE 0]
              ELSE idleRun
    ELSE [len |-> 0, bcasts |-> 0]

\* the continuation of pollCurrentTrack after
\* `await mediaProvider.getCurrentTrack()` resolved to track
PollReturns(track) ==
    /\ inFlight > 0
    /\ inFlight' = inFlight - 1
    /\ nDone' = nDone + 1
    /\ lastTrackId' = TrackIdOf(track)
    /\ lastPlayingState' = IF track = Null THEN <<>> ELSE <<track.playing>>
    /\ lastProgressMs' = IF track = Null THEN <<>> ELSE track.progress
    /\ currentTrack' = track
    /\ inbox' = IF ShouldBroadcast(track)
                THEN Broadcast(TrackMessage(track))
                ELSE inbox
    /\ prevTrack' = IF nDone = 0 THEN NoPoll ELSE currentTrack
    /\ decision' = [isNewTrack |-> IsNewTrack(track),
                    playStateChanged |-> PlayStateChanged(track),
                    userSeeked |-> UserSeeked(track),
                    shouldBroadcast |-> ShouldBroadcast(track)]
    /\ nBroadcasts' = IF ShouldBroadcast(track) THEN nBroadcasts + 1 ELSE nBroadcasts
    /\ lastBroadcast' = IF ShouldBroadcast(track)
                        THEN <<TrackMessage(track)>>
                        ELSE lastBroadcast
    /\ idleRun' = NextIdleRun(track, ShouldBroadcast(track))
    /\ pollOutcome' = "returned"
    /\ UNCHANGED << pollingInterval, clients, readyState >>
    /\ UNCHANGED << sendThrows, now, widgetVars, adapterVars, storeVars, reconnectVars, gatedVars, routeVars, timerVars >>

\* a poll that records a snapshot only when it broadcasts it
PollReturn_UpdatesIfSignificant(track) ==
    /\ inFlight > 0
    /\ inFlight' = inFlight - 1
    /\ nDone' = nDone + 1
    /\ lastTrackId' = IF ShouldBroadcast(track) THEN TrackIdOf(track) ELSE lastTrackId
    /\ lastPlayingState' = IF ~ShouldBroadcast(track) THEN lastPlayingState
                         ELSE IF track = Null THEN <<>> ELSE <<track.playing>>
    /\ lastProgressMs' = IF ~ShouldBroadcast(track) THEN lastProgressMs
                       ELSE IF track = Null THEN <<>> ELSE track.progress
    /\ currentTrack' = track
    /\ inbox' = IF ShouldBroadcast(track)
                THEN Broadcast(TrackMessage(track))
                ELSE inbox
    /\ prevTrack' = IF nDone = 0 THEN NoPoll ELSE currentTrack
    /\ decision' = [isNewTrack |-> IsNewTrack(track),
                    playStateChanged |-> PlayStateChanged(track),
                    userSeeked |-> UserSeeked(track),
                    shouldBroadcast |-> ShouldBroadcast(track)]
    /\ nBroadcasts' = IF ShouldBroadcast(track) THEN nBroadcasts + 1 ELSE nBroadcasts
    /\ lastBroadcast' = IF ShouldBroadcast(track)
                        THEN <<TrackMessage(track)>>
                        ELSE lastBroadcast
    /\ idleRun' = NextIdleRun(track, ShouldBroadcast(track))
    /\ pollOutcome' = "returned"
    /\ UNCHANGED << pollingInterval, clients, readyState >>
    /\ UNCHANGED << sendThrows, now, widgetVars, adapterVars, storeVars, reconnectVars, orderVars, gatedVars, routeVars, timerVars >>

\* a poll returns, where the polls are not told apart
PollReturn(track) ==
    /\ PollReturns(track)
    /\ UNCHANGED orderVars

\* `await mediaProvider.getCurrentTrack()` rejects: the catch block of
\* pollCurrentTrack logs the error
PollFails ==
    /\ inFlight > 0
    /\ inFlight' = inFlight - 1
    /\ pollOutcome' = "threw"
    /\ UNCHANGED << trackerVars, hubVars, pollingInterval, nDone, ghostVars >>
    /\ UNCHANGED << sendThrows, now, widgetVars, adapterVars, storeVars, reconnectVars, gatedVars, routeVars, timerVars >>

\* a catch block that forgets the known track and the comparison state
PollThrows_Resets ==
    /\ inFlight > 0
    /\ inFlight' = inFlight - 1
    /\ pollOutcome' = "threw"
    /\ currentTrack' = Null
    /\ lastTrackId' = <<>>
    /\ lastPlayingState' = <<>>
    /\ lastProgressMs' = <<>>
    /\ UNCHANGED << hubVars, pollingInterval, nDone, ghostVars >>
    /\ UNCHANGED << sendThrows, now, widgetVars, adapterVars, storeVars, reconnectVars, orderVars, gatedVars, routeVars, timerVars >>

\* a poll throws, where the polls are not told apart
PollThrows ==
    /\ PollFails
    /\ UNCHANGED orderVars

\* the socket of an OPEN connection breaks in a way that makes send() throw
SendBreaks(c) ==
    /\ readyState[c] = "OPEN"
    /\ c \notin sendThrows
    /\ sendThrows' = sendThrows \cup {c}
    /\ UNCHANGED << trackerVars, hubVars, pollingInterval, inFlight, nDone,
                    ghostVars, pollOutcome, now, widgetVars, adapterVars, storeVars, reconnectVars, orderVars, gatedVars, routeVars, timerVars >>

(***************************************************************************)
(* The server with its observers.                                          *)
(***************************************************************************)
Next ==
    \/ StartPolling
    \/ Tick
    \/ \E track \in ServerResults : PollReturn(track)
    \/ PollThrows
    \/ \E c \in Conns : Connect(c)
    \/ \E c \in Conns : BeginClose(c)
    \/ \E c \in Conns : Close(c)

Spec == Init /\ [][Next]_vars

(***************************************************************************)
(* The server with observers whose send() may throw.                       *)
(***************************************************************************)
NextSendThrows ==
    \/ Next
    \/ \E c \in Conns : SendBreaks(c)

SpecSendThrows == Init /\ [][NextSendThrows]_vars

(***************************************************************************)
(* The state tracker alone, over every adapter result.                     *)
(***************************************************************************)
NextTracker ==
    \/ StartPolling
    \/ Tick
    \/ \E track \in PollResults : PollReturn(track)

SpecTracker == Init /\ [][NextTracker]_vars

\* the poll loop when startPolling is called again while it runs
NextTimers ==
    \/ StartPolling
    \/ RestartPolling
    \/ Tick
    \/ \E track \in ServerResults : PollReturn(track)
    \/ PollThrows

SpecTimers == Init /\ [][NextTimers]_vars

\* a timer that starts a poll only when none is pending
LiveTick_Serialized ==
    /\ activeTimers # {}
    /\ inFlight = 0
    /\ inFlight' = 1
    /\ tickParity' = 1 - tickParity
    /\ UNCHANGED << trackerVars, hubVars, pollingInterval, nDone, ghostVars,
                    activeTimers, nextTimer >>
    /\ UNCHANGED << pollOutcome, sendThrows, now, widgetVars, adapterVars, storeVars, reconnectVars, orderVars, gatedVars, routeVars >>

\* a tick of the armed timer at any time of an unbounded run: it calls
\* pollCurrentTrack whatever became of the earlier polls; inFlight saturates
\* at MaxInFlight, which then reads "MaxInFlight or more"
LiveTick ==
    /\ activeTimers # {}
    /\ inFlight' = IF inFlight < MaxInFlight THEN inFlight + 1 ELSE inFlight
    /\ tickParity' = 1 - tickParity
    /\ UNCHANGED << trackerVars, hubVars, pollingInterval, nDone, ghostVars,
                    activeTimers, nextTimer >>
    /\ UNCHANGED << pollOutcome, sendThrows, now, widgetVars, adapterVars, storeVars, reconnectVars, orderVars, gatedVars, routeVars >>

\* the adapter call of a pending poll returns (counted up to MaxPolls)
LivePollReturn(track) ==
    /\ nDone < MaxPolls
    /\ PollReturn(track)

\* the loop without an end: polls may return, throw or stay pending for ever
NextLive ==
    \/ StartPolling
    \/ LiveTick
    \/ \E track \in ServerResults : LivePollReturn(track)
    \/ PollThrows

\* setInterval keeps firing an armed timer
SpecLive == Init /\ [][NextLive]_vars /\ WF_vars(LiveTick)

(***************************************************************************)
(* The observer renderer (class MusicWidget of src/public/js/widget.js).   *)
(***************************************************************************)
MaxElapsedMs == 4000

\* steps by which the clock is observed to advance
TimeSteps == {500, 1000}

\* a titled snapshot with the given duration field (<<>> when absent)
SnapWithDuration(playing, progress, duration) ==
    [Snap("A", "X", playing, progress) EXCEPT !.duration = duration]

\* the track messages pushed to a widget: data null, an error snapshot, or a
\* titled snapshot whose duration is absent, 0 or known and whose progress
\* may exceed the duration
WidgetPushes ==
    { SnapWithDuration(pl, pr, du) :
        pl \in BOOLEAN, pr \in {0, 1000, 5000}, du \in {<<>>, <<0>>, <<3000>>} }
      \cup { Null, ErrorSnapshot("PowerShell error") }

\* this.currentTrack.duration || 0
DurationOr0(track) ==
    IF track.duration = <<>> THEN 0 ELSE track.duration[1]

Min(a, b) == IF a < b THEN a ELSE b

Max(a, b) == IF a > b THEN a ELSE b

\* a position that is extrapolated without the upper clamp
GetCurrentProgress_NoClamp ==
    IF wCurrentTrack = Null \/ syncedAtTime = 0
    THEN 0
    ELSE IF wIsPlaying
         THEN syncedProgressMs + (now - syncedAtTime)
         ELSE syncedProgressMs

\* a position that is extrapolated whether or not the track is playing
GetCurrentProgress_AlwaysRuns ==
    IF wCurrentTrack = Null \/ syncedAtTime = 0
    THEN 0
    ELSE Min(syncedProgressMs + (now - syncedAtTime), DurationOr0(wCurrentTrack))

\* getCurrentProgress()
GetCurrentProgress ==
    IF wCurrentTrack = Null \/ syncedAtTime = 0
    THEN 0
    ELSE IF wIsPlaying
         THEN Min(syncedProgressMs + (now - syncedAtTime), DurationOr0(wCurrentTrack))
         ELSE syncedProgressMs

\* an idle state that forgets the track and its baseline
UpdateTrack_IdleClearsTrack(track) ==
    IF ~Titled(track)
    THEN /\ idleShown' = TRUE
         /\ wIsPlaying' = FALSE
         /\ wCurrentTrack' = Null
         /\ syncedProgressMs' = 0
         /\ syncedAtTime' = 0
    ELSE /\ idleShown' = FALSE
         /\ syncedProgressMs' = ActualProgress(track)
         /\ syncedAtTime' = now
         /\ wCurrentTrack' = track
         /\ wIsPlaying' = track.playing

\* a renderer that re-baselines only when the push is far from its own position
UpdateTrack_DriftGated(track) ==
    IF ~Titled(track)
    THEN /\ idleShown' = TRUE
         /\ wIsPlaying' = FALSE
         /\ UNCHANGED << wCurrentTrack, syncedProgressMs, syncedAtTime >>
    ELSE /\ idleShown' = FALSE
         /\ IF \/ wCurrentTrack = Null
               \/ Abs(ActualProgress(track) - GetCurrentProgress) > SeekThresholdMs
            THEN /\ syncedProgressMs' = ActualProgress(track)
                 /\ syncedAtTime' = now
            ELSE UNCHANGED << syncedProgressMs, syncedAtTime >>
         /\ wCurrentTrack' = track
         /\ wIsPlaying' = track.playing

\* an idle state that leaves the playing flag as it was
UpdateTrack_IdleKeepsPlaying(track) ==
    IF ~Titled(track)
    THEN /\ idleShown' = TRUE
         /\ UNCHANGED << wIsPlaying, wCurrentTrack, syncedProgressMs, syncedAtTime >>
    ELSE /\ idleShown' = FALSE
         /\ syncedProgressMs' = ActualProgress(track)
         /\ syncedAtTime' = now
         /\ wCurrentTrack' = track
         /\ wIsPlaying' = track.playing

\* updateTrack(track)
UpdateTrack(track) ==
    IF ~Titled(track)
    THEN \* showIdleState(); return
         /\ idleShown' = TRUE
         /\ wIsPlaying' = FALSE
         /\ UNCHANGED << wCurrentTrack, syncedProgressMs, syncedAtTime >>
    ELSE \* hideIdleState(); always sync
         /\ idleShown' = FALSE
         /\ syncedProgressMs' = ActualProgress(track)
         /\ syncedAtTime' = now
         /\ wCurrentTrack' = track
         /\ wIsPlaying' = track.playing

\* ws.onmessage -> handleMessage({ type: 'track', data: track })
WidgetReceive(track) ==
    /\ UpdateTrack(track)
    /\ UNCHANGED << routeVars, timerVars, adapterVars, storeVars, reconnectVars, orderVars, gatedVars, serverVars, now, shownProgress, wRead >>

\* a render loop that folds each frame into the baseline
RenderTick_Accumulates ==
    /\ wCurrentTrack # Null
    /\ shownProgress' = GetCurrentProgress
    /\ syncedProgressMs' = GetCurrentProgress
    /\ syncedAtTime' = IF syncedAtTime = 0 THEN 0 ELSE now
    /\ UNCHANGED << routeVars, timerVars, adapterVars, storeVars, reconnectVars, orderVars, gatedVars, serverVars, now, wCurrentTrack, wIsPlaying,
                    idleShown, wRead >>

\* updateProgressDisplay(), one frame of the render loop
RenderTick ==
    /\ wCurrentTrack # Null
    /\ shownProgress' = GetCurrentProgress
    /\ UNCHANGED << routeVars, timerVars, adapterVars, storeVars, reconnectVars, orderVars, gatedVars, serverVars, now, wCurrentTrack, wIsPlaying,
                    syncedProgressMs, syncedAtTime, idleShown, wRead >>

\* wall-clock time passes
ClockAdvance(step) ==
    /\ now + step <= StartTime + MaxElapsedMs
    /\ now' = now + step
    /\ UNCHANGED << routeVars, timerVars, adapterVars, storeVars, reconnectVars, orderVars, gatedVars, serverVars, widgetVars >>

NextWidget ==
    \/ \E track \in WidgetPushes : WidgetReceive(track)
    \/ RenderTick
    \/ \E step \in TimeSteps : ClockAdvance(step)

SpecWidget == Init /\ [][NextWidget]_vars

(***************************************************************************)
(* The poll loop with its polls told apart.  Every execution of            *)
(* pollCurrentTrack awaits its own adapter call (a PowerShell process of   *)
(* its own, up to 5000 ms), so the calls in flight return in any order.    *)
(***************************************************************************)
\* startPolling(): the initial poll
OrderedStartPolling ==
    /\ StartsPolling
    /\ nStarted' = nStarted + 1
    /\ pending' = pending \cup { nStarted + 1 }
    /\ UNCHANGED holds

\* a tick of the interval timer starts the next poll
OrderedTick ==
    /\ nStarted < MaxPolls
    /\ Ticks
    /\ nStarted' = nStarted + 1
    /\ pending' = pending \cup { nStarted + 1 }
    /\ UNCHANGED holds

\* the adapter call of poll p returns track
OrderedPollReturn(p, track) ==
    /\ p \in pending
    /\ PollReturns(track)
    /\ pending' = pending \ { p }
    /\ holds' = p
    /\ UNCHANGED nStarted

\* the adapter call of poll p rejects
OrderedPollThrows(p) ==
    /\ p \in pending
    /\ PollFails
    /\ pending' = pending \ { p }
    /\ UNCHANGED << nStarted, holds >>

NextOrdered ==
    \/ OrderedStartPolling
    \/ OrderedTick
    \/ \E p \in 1..MaxPolls, track \in ServerResults : OrderedPollReturn(p, track)
    \/ \E p \in 1..MaxPolls : OrderedPollThrows(p)
    \/ \E c \in Conns : Connect(c)

SpecOrdered == Init /\ [][NextOrdered]_vars

(***************************************************************************)
(* The drift-gated revision of the widget (src/unnamed/part_001): it       *)
(* re-derives on its own whether a received snapshot is a change.          *)
(***************************************************************************)
WidgetSeekThresholdMs == 2500

\* updateTrack(track) of the drift-gated revision
GatedUpdateTrack(track) ==
    IF ~Titled(track)
    THEN \* showIdleState(); return
         /\ idleShown' = TRUE
         /\ wIsPlaying' = FALSE
         /\ UNCHANGED << wCurrentTrack, syncedProgressMs, syncedAtTime, gatedVars >>
    ELSE LET trackId == << Str(track.title) \o "-" \o Str(track.artist) >>
             isNewTrack == trackId # wLastTrackId
             serverProgress == ActualProgress(track)
             playStateChanged == wasPlaying # track.playing
             drift == Abs(serverProgress - GetCurrentProgress)
             userSeeked == ~isNewTrack /\ drift > WidgetSeekThresholdMs
         IN /\ idleShown' = FALSE
            /\ IF isNewTrack \/ userSeeked \/ playStateChanged \/ wLastTrackId = <<>>
               THEN /\ syncedProgressMs' = serverProgress
                    /\ syncedAtTime' = now
               ELSE UNCHANGED << syncedProgressMs, syncedAtTime >>
            /\ wLastTrackId' = trackId
            /\ wCurrentTrack' = track
            \* this.wasPlaying = this.isPlaying, before isPlaying is assigned
            /\ wasPlaying' = wIsPlaying
            /\ wIsPlaying' = track.playing

\* ws.onmessage -> handleMessage({ type: 'track', data: track })
GatedReceive(track) ==
    /\ GatedUpdateTrack(track)
    /\ UNCHANGED << routeVars, timerVars, adapterVars, storeVars, reconnectVars, orderVars, serverVars, now, shownProgress, wRead >>

NextGated ==
    \/ \E track \in WidgetPushes : GatedReceive(track)
    \/ RenderTick
    \/ \E step \in TimeSteps : ClockAdvance(step)

SpecGated == Init /\ [][NextGated]_vars

(***************************************************************************)
(* The server and one widget together: the widget is the peer of the first *)
(* connection and handles the messages of its inbox in order.              *)
(***************************************************************************)
PollIntervalMs == 1000

\* what the adapter reports while one track keeps playing
SyncResults == { Snap("A", "X", TRUE, p) : p \in {0, 1000, 2500, 4000, 10000} }

\* a tick of setInterval(pollCurrentTrack, 1000), one interval after the
\* previous one
TimerFires ==
    /\ pollingInterval # <<>>
    /\ inFlight < MaxInFlight
    /\ nDone + inFlight < MaxPolls
    /\ inFlight' = inFlight + 1
    /\ now' = now + PollIntervalMs
    /\ UNCHANGED << trackerVars, hubVars, pollingInterval, nDone, ghostVars >>
    /\ UNCHANGED << pollOutcome, sendThrows, widgetVars, adapterVars, storeVars, reconnectVars, orderVars, gatedVars, routeVars, timerVars >>

\* ws.onmessage of the widget for the next message the server has sent it
Deliver ==
    /\ wRead < Len(inbox[1])
    /\ UpdateTrack(inbox[1][wRead + 1].data)
    /\ wRead' = wRead + 1
    /\ UNCHANGED << routeVars, timerVars, adapterVars, storeVars, reconnectVars, orderVars, gatedVars, serverVars, now, shownProgress >>

NextSync ==
    \/ StartPolling
    \/ TimerFires
    \/ \E track \in SyncResults : PollReturn(track)
    \/ \E c \in Conns : Connect(c)
    \/ Deliver
    \/ RenderTick

SpecSync == Init /\ [][NextSync]_vars

(***************************************************************************)
(* The server with its observers while the media session fills in the      *)
(* timeline of one track: duration is EndTime of the session's timeline    *)
(* properties, 0 until the player has reported it.                         *)
(***************************************************************************)
TimelineResults ==
    { SnapWithDuration(TRUE, pr, du) : pr \in {0, 1000}, du \in {<<0>>, <<3000>>} }

NextTimeline ==
    \/ StartPolling
    \/ Tick
    \/ \E track \in TimelineResults : PollReturn(track)
    \/ \E c \in Conns : Connect(c)
    \/ \E c \in Conns : Close(c)

SpecTimeline == Init /\ [][NextTimeline]_vars

(***************************************************************************)
(* The widget's connection: connectWebSocket() and the handlers of its     *)
(* socket, against a server that may stop accepting connections for a      *)
(* while.                                                                  *)
(***************************************************************************)
MaxOutages == 2

ReconnectResults == { Null, Snap("A", "X", TRUE, 0), Snap("A", "X", FALSE, 1000) }

\* the handshake of this.ws succeeds: the server's connection handler runs
\* and ws.onopen fires
WidgetConnects(c) ==
    /\ wsState = "connecting"
    /\ accepting
    /\ Connects(c)
    /\ wsState' = "open"
    /\ wConn' = c
    /\ wHandled' = 0
    /\ UNCHANGED << reconnectTimers, attemptFailed, accepting, outages >>

\* a failed attempt that does not fire onclose
AttemptFails_NoClose ==
    /\ wsState = "connecting"
    /\ ~accepting
    /\ wsState' = "closed"
    /\ attemptFailed' = TRUE
    /\ UNCHANGED << wConn, wHandled, reconnectTimers, accepting, outages >>
    /\ UNCHANGED << serverVars, now, widgetVars, adapterVars, storeVars, orderVars, gatedVars, routeVars, timerVars >>

\* the handshake of this.ws fails: onerror, then onclose schedules the
\* next attempt
AttemptFails ==
    /\ wsState = "connecting"
    /\ ~accepting
    /\ wsState' = "closed"
    /\ reconnectTimers' = reconnectTimers + 1
    /\ attemptFailed' = TRUE
    /\ UNCHANGED << wConn, wHandled, accepting, outages >>
    /\ UNCHANGED << serverVars, now, widgetVars, adapterVars, storeVars, orderVars, gatedVars, routeVars, timerVars >>

\* the open connection drops: ws.onclose schedules a reconnect
WidgetOnClose ==
    /\ wsState = "open"
    /\ wConn < MaxConns
    /\ wsState' = "closed"
    /\ reconnectTimers' = reconnectTimers + 1
    /\ attemptFailed' = FALSE
    /\ UNCHANGED << wConn, wHandled, accepting, outages >>
    /\ UNCHANGED << serverVars, now, widgetVars, adapterVars, storeVars, orderVars, gatedVars, routeVars, timerVars >>

\* the timeout fires: this.connectWebSocket() creates a new WebSocket
ReconnectFires ==
    /\ reconnectTimers > 0
    /\ reconnectTimers' = reconnectTimers - 1
    /\ wsState' = "connecting"
    /\ UNCHANGED << wConn, wHandled, attemptFailed, accepting, outages >>
    /\ UNCHANGED << serverVars, now, widgetVars, adapterVars, storeVars, orderVars, gatedVars, routeVars, timerVars >>

\* ws.onmessage for the next message sent on the widget's connection
WidgetDeliver ==
    /\ wsState = "open"
    /\ wHandled < Len(inbox[wConn])
    /\ UpdateTrack(inbox[wConn][wHandled + 1].data)
    /\ wHandled' = wHandled + 1
    /\ UNCHANGED << wsState, wConn, reconnectTimers, attemptFailed, accepting, outages >>
    /\ UNCHANGED << routeVars, timerVars, adapterVars, storeVars, orderVars, gatedVars, serverVars, now, shownProgress, wRead >>

\* the server goes away (restart, network loss)
ServerStops ==
    /\ accepting
    /\ outages < MaxOutages
    /\ accepting' = FALSE
    /\ outages' = outages + 1
    /\ UNCHANGED << wsState, wConn, wHandled, reconnectTimers, attemptFailed >>
    /\ UNCHANGED << serverVars, now, widgetVars, adapterVars, storeVars, orderVars, gatedVars, routeVars, timerVars >>

\* the server accepts connections again
ServerResumes ==
    /\ ~accepting
    /\ accepting' = TRUE
    /\ UNCHANGED << wsState, wConn, wHandled, reconnectTimers, attemptFailed, outages >>
    /\ UNCHANGED << serverVars, now, widgetVars, adapterVars, storeVars, orderVars, gatedVars, routeVars, timerVars >>

NextReconnect ==
    \/ \E c \in Conns : WidgetConnects(c)
    \/ AttemptFails
    \/ WidgetOnClose
    \/ ReconnectFires
    \/ WidgetDeliver
    \/ ServerStops
    \/ ServerResumes
    \/ \E c \in Conns : Close(c)
    \/ StartPolling
    \/ \E track \in ReconnectResults : PollReturn(track)

\* timers fire, handshakes end one way or the other, messages arrive, and
\* an outage of the server ends
SpecReconnect ==
    /\ Init
    /\ [][NextReconnect]_vars
    /\ WF_vars(\E c \in Conns : WidgetConnects(c))
    /\ WF_vars(AttemptFails)
    /\ WF_vars(ReconnectFires)
    /\ WF_vars(WidgetDeliver)
    /\ WF_vars(ServerResumes)

(***************************************************************************)
(* The source adapters: WindowsMediaProvider (windows-media.js) and        *)
(* SpotifyProvider.  A call of getCurrentTrack is one step; what the       *)
(* outside world answers (the PowerShell process, the Spotify endpoints)   *)
(* is its input.                                                           *)
(***************************************************************************)
MaxAttempts == 2

RefreshWindowMs == 300000

Platforms == {"win32", "linux"}

\* { playing: false }
NotPlaying ==
    [kind |-> "snap", playing |-> FALSE, title |-> <<>>,
     artist |-> <<>>, progress |-> <<>>, error |-> <<>>,
     duration |-> <<>>]

\* { playing: false, needsAuth: true }: no field the server or widget reads
\* differs from { playing: false }
NeedsAuthSnapshot == NotPlaying

\* how a call that resolves ends; failure marks an internal failure
Resolved(value, failure) ==
    [outcome |-> "resolved", value |-> value, failure |-> failure]

\* ---- WindowsMediaProvider ----
\* what stdout of the PowerShell process holds
Stdouts ==
    { [kind |-> "empty", value |-> Null], [kind |-> "garbage", value |-> Null],
      [kind |-> "json", value |-> Null],
      [kind |-> "json", value |-> ErrorSnapshot("No media session")],
      [kind |-> "json", value |-> Snap("A", "X", TRUE, 1000)],
      [kind |-> "json", value |-> Snap("A", "X", FALSE, 1000)],
      [kind |-> "json", value |-> Snap("A-B", "X", TRUE, 0)] }

\* how execAsync ends: it rejects (exit code, timeout, no powershell) or
\* resolves to { stdout, stderr }
ExecResults ==
    [rejects : {TRUE}, stdout : {[kind |-> "empty", value |-> Null]}, stderr : {""}]
      \cup [rejects : {FALSE}, stdout : Stdouts, stderr : {"", "err"}]

\* the catch block of WindowsMediaProvider.getCurrentTrack
WindowsCaught(message) ==
    IF platform # "win32"
    THEN ErrorSnapshot("Windows Media Session is only available on Windows")
    ELSE ErrorSnapshot(message)

\* JSON.parse(stdout.trim()) and the reads of result.playing, result.title
ParsesToObject(stdout) == stdout.kind = "json" /\ stdout.value # Null

\* WindowsMediaProvider.getCurrentTrack()
WindowsGetCurrentTrack(ex) ==
    IF ex.rejects
    THEN Resolved(WindowsCaught("Command failed"), TRUE)
    ELSE IF ex.stderr # "" /\ ex.stdout.kind = "empty"
    THEN Resolved(ErrorSnapshot("PowerShell error"), TRUE)
    ELSE IF ~ParsesToObject(ex.stdout)
    THEN Resolved(WindowsCaught("Unexpected token"), TRUE)
    ELSE Resolved(ex.stdout.value, FALSE)

WindowsCall(ex) ==
    LET r == WindowsGetCurrentTrack(ex)
        parsed == ~ex.rejects /\ ~(ex.stderr # "" /\ ex.stdout.kind = "empty")
                  /\ ParsesToObject(ex.stdout)
    IN /\ adapterResult' = [provider |-> "windows", outcome |-> r.outcome,
                            value |-> r.value, failure |-> r.failure]
       /\ IF ~parsed
          THEN UNCHANGED << lastTrack, playbackStartTime >>
          ELSE IF r.value.playing /\ Titled(r.value)
          THEN /\ playbackStartTime' =
                     IF lastTrack = Null \/ lastTrack.title # r.value.title
                     THEN << now - r.value.progress[1] >>
                     ELSE playbackStartTime
               /\ lastTrack' = r.value
          ELSE /\ lastTrack' = Null
               /\ playbackStartTime' = <<>>
       /\ UNCHANGED << credentials, accessToken, refreshToken, tokenExpiry, platform >>
       /\ UNCHANGED << serverVars, now, widgetVars, routeVars, timerVars, storeVars, reconnectVars, orderVars, gatedVars >>

\* ---- SpotifyProvider ----
\* expires_in (seconds) of a token response
ExpiresIn == {60, 3600}

\* how the token endpoint answers a refresh: <<>> when the request fails or
\* is not ok, else << expires_in >>
RefreshOutcomes == { <<>>, <<3600>> }

\* how the currently-playing endpoint answers: status 0 stands for a fetch
\* that throws
Responses ==
    { [status |-> st, body |-> Null] : st \in {0, 204, 401, 500} }
      \cup { [status |-> 200, body |-> b] :
               b \in { [kind |-> "garbage", item |-> <<>>],
                       [kind |-> "json", item |-> <<>>],
                       [kind |-> "json", item |-> << Snap("A", "X", TRUE, 1000) >>] } }

\* the answers one pass through getCurrentTrack consumes
Attempts ==
    { a \in [ensureRefresh : RefreshOutcomes, response : Responses,
             retryRefresh : RefreshOutcomes] :
        a.retryRefresh = <<>> \/ a.response.status = 401 }

AttemptSeqs == UNION { [1..n -> Attempts] : n \in 1..MaxAttempts }

\* data.access_token of a refresh: a token other than the one replaced
FreshToken(old) ==
    IF old = << "access-r1" >> THEN << "access-r2" >> ELSE << "access-r1" >>

\* refreshAccessToken(): threw, or the fields it assigns
RefreshAccessToken(sp, outcome) ==
    IF sp.refreshToken = <<>> \/ outcome = <<>>
    THEN [threw |-> TRUE, sp |-> sp]
    ELSE [threw |-> FALSE,
          sp |-> [sp EXCEPT !.accessToken = FreshToken(sp.accessToken),
                            !.tokenExpiry = << now + outcome[1] * 1000 >>]]

\* ensureToken()
EnsureToken(sp, outcome) ==
    IF sp.accessToken = <<>>
    THEN [ok |-> FALSE, refreshFailed |-> FALSE, sp |-> sp]
    ELSE IF sp.tokenExpiry # <<>> /\ now > sp.tokenExpiry[1] - RefreshWindowMs
    THEN LET r == RefreshAccessToken(sp, outcome)
         IN [ok |-> ~r.threw, refreshFailed |-> r.threw, sp |-> r.sp]
    ELSE [ok |-> TRUE, refreshFailed |-> FALSE, sp |-> sp]

RECURSIVE SpotifyGetCurrentTrack(_, _)
\* SpotifyProvider.getCurrentTrack(); "pending" when the answers run out
\* before the call settles
SpotifyGetCurrentTrack(sp, attempts) ==
    IF ~credentials
    THEN [sp |-> sp, outcome |-> "resolved", failure |-> TRUE,
          value |-> ErrorSnapshot("Spotify credentials not configured")]
    ELSE IF attempts = <<>>
    THEN [sp |-> sp, outcome |-> "pending", failure |-> FALSE, value |-> Null]
    ELSE
      LET a == Head(attempts)
          e == EnsureToken(sp, a.ensureRefresh)
          Done(value, failure) ==
              [sp |-> e.sp, outcome |-> "resolved", failure |-> failure,
               value |-> value]
      IN IF ~e.ok
         THEN Done(NeedsAuthSnapshot, e.refreshFailed)
         ELSE IF a.response.status = 0
         THEN Done(ErrorSnapshot("request failed"), TRUE)
         ELSE IF a.response.status = 204
         THEN Done(NotPlaying, FALSE)
         ELSE IF a.response.status = 401
         THEN LET r == RefreshAccessToken(e.sp, a.retryRefresh)
              IN IF r.threw
                 THEN Done(ErrorSnapshot("Token refresh failed"), TRUE)
                 ELSE SpotifyGetCurrentTrack(r.sp, Tail(attempts))
         ELSE IF a.response.status # 200
         THEN Done(ErrorSnapshot("Spotify API error"), TRUE)
         ELSE IF a.response.body.kind # "json"
         THEN Done(ErrorSnapshot("invalid json"), TRUE)
         ELSE IF a.response.body.item = <<>>
         THEN Done(NotPlaying, FALSE)
         ELSE Done(a.response.body.item[1], FALSE)

SpotifyCall(attempts) ==
    LET r == SpotifyGetCurrentTrack(
                 [accessToken |-> accessToken, refreshToken |-> refreshToken,
                  tokenExpiry |-> tokenExpiry], attempts)
    IN /\ r.outcome # "pending"
       /\ adapterResult' = [provider |-> "spotify", outcome |-> r.outcome,
                            value |-> r.value, failure |-> r.failure]
       /\ accessToken' = r.sp.accessToken
       /\ refreshToken' = r.sp.refreshToken
       /\ tokenExpiry' = r.sp.tokenExpiry
       /\ UNCHANGED << credentials, platform, lastTrack, playbackStartTime >>
       /\ UNCHANGED << serverVars, now, widgetVars, routeVars, timerVars, storeVars, reconnectVars, orderVars, gatedVars >>

\* handleCallback(code) when the token exchange succeeds
SpotifyAuthorize(expires, refresh) ==
    /\ credentials
    /\ accessToken' = << "access" >>
    /\ refreshToken' = refresh
    /\ tokenExpiry' = << now + expires * 1000 >>
    /\ UNCHANGED << credentials, platform, lastTrack, playbackStartTime, adapterResult >>
    /\ UNCHANGED << serverVars, now, widgetVars, routeVars, timerVars, storeVars, reconnectVars, orderVars, gatedVars >>

\* any host and any environment
InitAdapters ==
    /\ InitProgram
    /\ credentials \in BOOLEAN
    /\ platform \in Platforms

NextAdapters ==
    \/ \E ex \in ExecResults : WindowsCall(ex)
    \/ \E attempts \in AttemptSeqs : SpotifyCall(attempts)
    \/ \E expires \in ExpiresIn, refresh \in { <<>>, << "refresh" >> } :
           SpotifyAuthorize(expires, refresh)

SpecAdapters == InitAdapters /\ [][NextAdapters]_vars

\* one pass through SpotifyProvider.getCurrentTrack(): the call itself or,
\* while the outcome is "pending", the call its 401 branch makes
SpotifyPass(a) ==
    LET r == SpotifyGetCurrentTrack(
                 [accessToken |-> accessToken, refreshToken |-> refreshToken,
                  tokenExpiry |-> tokenExpiry], << a >>)
    IN /\ adapterResult' = [provider |-> "spotify", outcome |-> r.outcome,
                            value |-> r.value, failure |-> r.failure]
       /\ accessToken' = r.sp.accessToken
       /\ refreshToken' = r.sp.refreshToken
       /\ tokenExpiry' = r.sp.tokenExpiry
       /\ UNCHANGED << credentials, platform, lastTrack, playbackStartTime >>
       /\ UNCHANGED << serverVars, now, widgetVars, routeVars, timerVars, storeVars, reconnectVars, orderVars, gatedVars >>

NextRetry ==
    \/ \E a \in Attempts : SpotifyPass(a)
    \/ \E expires \in ExpiresIn, refresh \in { <<>>, << "refresh" >> } :
           SpotifyAuthorize(expires, refresh)

\* the requests of a pass are answered and the pass runs on
SpecRetry ==
    InitAdapters /\ [][NextRetry]_vars /\ WF_vars(\E a \in Attempts : SpotifyPass(a))

(***************************************************************************)
(* Theme upload: validateTheme and POST /api/themes/upload.  A theme is a  *)
(* string; the tests of validateTheme are computed on its characters.      *)
(***************************************************************************)
FileSizeLimit == 524288

\* requiredIds of validateTheme
RequiredIds ==
    << "widget-container", "idle-state", "track-content", "album-art",
       "track-title", "track-artist", "progress-bar", "current-time",
       "total-time", "visualizer" >>

Ch(str, i) == SubSeq(str, i, i)

\* html.includes(part)
Includes(html, part) ==
    \E i \in 1..(Len(html) - Len(part) + 1) :
        SubSeq(html, i, i + Len(part) - 1) = part

\* the i flag of the patterns: letters compare in lower case
LowerChar(c) ==
    LET upper == "ABCDEFGHIJKLMNOPQRSTUVWXYZ"
        lower == "abcdefghijklmnopqrstuvwxyz"
    IN IF \E i \in 1..26 : Ch(upper, i) = c
       THEN Ch(lower, CHOOSE i \in 1..26 : Ch(upper, i) = c)
       ELSE c

\* the lower-case literal is matched at position i, ignoring case
MatchesAt(html, i, literal) ==
    /\ i + Len(literal) - 1 <= Len(html)
    /\ \A k \in 1..Len(literal) : LowerChar(Ch(html, i + k - 1)) = Ch(literal, k)

\* \w
IsWordChar(c) ==
    LET word == "abcdefghijklmnopqrstuvwxyz0123456789_"
    IN \E i \in 1..Len(word) : Ch(word, i) = LowerChar(c)

\* \s
IsSpace(c) == c \in {" ", "\t", "\n", "\r"}

RECURSIVE WordEnd(_, _)
\* the first position from i on that holds no word character
WordEnd(html, i) ==
    IF i <= Len(html) /\ IsWordChar(Ch(html, i)) THEN WordEnd(html, i + 1) ELSE i

RECURSIVE SpaceEnd(_, _)
\* the first position from i on that holds no whitespace
SpaceEnd(html, i) ==
    IF i <= Len(html) /\ IsSpace(Ch(html, i)) THEN SpaceEnd(html, i + 1) ELSE i

\* /<script[^>]*src=/i
ScriptSrcPattern(html) ==
    \E i \in 1..Len(html) :
        /\ MatchesAt(html, i, "<script")
        /\ \E j \in (i + 7)..Len(html) :
              /\ MatchesAt(html, j, "src=")
              /\ \A k \in (i + 7)..(j - 1) : Ch(html, k) # ">"

\* /javascript:/i
JavascriptPattern(html) ==
    \E i \in 1..Len(html) : MatchesAt(html, i, "javascript:")

\* /on\w+\s*=/i
OnHandlerPattern(html) ==
    \E i \in 1..Len(html) :
        /\ MatchesAt(html, i, "on")
        /\ LET w == WordEnd(html, i + 2)
               e == SpaceEnd(html, w)
           IN /\ w > i + 2
              /\ e <= Len(html)
              /\ Ch(html, e) = "="

\* the loop over requiredIds
ContainsRequiredIds(html) ==
    \A n \in 1..Len(RequiredIds) : Includes(html, "id=\"" \o RequiredIds[n] \o "\"")

\* validateTheme(html).valid
ValidateTheme(html) ==
    /\ ContainsRequiredIds(html)
    /\ ~ScriptSrcPattern(html)
    /\ ~JavascriptPattern(html)
    /\ ~OnHandlerPattern(html)

\* str.endsWith(suffix)
EndsWith(str, suffix) ==
    /\ Len(str) >= Len(suffix)
    /\ SubSeq(str, Len(str) - Len(suffix) + 1, Len(str)) = suffix

\* fileFilter of themeUpload
FileFilter(file) ==
    file.mimetype = "text/html" \/ EndsWith(file.originalname, ".html")

RECURSIVE Elements(_, _)
\* markup with one element for each required id except the one at position skip
Elements(n, skip) ==
    IF n = 0 THEN ""
    ELSE Elements(n - 1, skip)
           \o (IF n = skip THEN "" ELSE "<i id=\"" \o RequiredIds[n] \o "\"></i>")

\* what a theme author may add to the required elements
Payloads ==
    { "",
      "<script>var x</script>",
      "<script src=\"https://x/a.js\"></script>",
      "<SCRIPT defer SRC=\"a.js\"></SCRIPT>",
      "<script src =\"https://x/a.js\"></script>",
      "<img src=\"a.png\" onerror=alert(1)>",
      "<b onclick = \"f()\">x</b>",
      "<a href=\"javascript:alert(1)\">x</a>",
      "<meta name=\"x\" content=\"y\">" }

\* themes with all required elements or with one of them missing
Themes ==
    { Elements(Len(RequiredIds), skip) \o extra :
        skip \in 0..Len(RequiredIds), extra \in Payloads }

\* req.file as multer hands it over, <<>> when the form has no 'theme' part
UploadedFiles ==
    { <<>> }
      \cup { << [originalname |-> "theme.html", mimetype |-> "text/html",
                 size |-> Len(html), content |-> html] >> : html \in Themes }
      \cup { << [originalname |-> nm, mimetype |-> mt, size |-> sz,
                 content |-> Elements(Len(RequiredIds), 0)] >> :
               nm \in {"theme.html", "theme.txt"},
               mt \in {"text/html", "text/plain"},
               sz \in {1000, 600000} }
      \cup { << [originalname |-> "Theme.html", mimetype |-> "text/html",
                 size |-> Len(html), content |-> html] >> :
               html \in { Elements(Len(RequiredIds), 0), Elements(Len(RequiredIds), 1) } }

\* validateTheme(content).valid of every theme that is uploaded
ThemeVerdicts == [html \in Themes |-> ValidateTheme(html)]

\* [^a-zA-Z0-9.-]
IsSafeNameChar(c) ==
    LET safe == "abcdefghijklmnopqrstuvwxyz0123456789.-"
    IN \E i \in 1..Len(safe) : Ch(safe, i) = LowerChar(c)

RECURSIVE SafeNameFrom(_, _)
SafeNameFrom(name, i) ==
    IF i > Len(name) THEN ""
    ELSE (IF IsSafeNameChar(Ch(name, i)) THEN LowerChar(Ch(name, i)) ELSE "-")
           \o SafeNameFrom(name, i + 1)

\* file.originalname.replace(/[^a-zA-Z0-9.-]/g, '-').toLowerCase()
SafeName(name) == SafeNameFrom(name, 1)

\* sanitizeThemeHtml(html): what sanitize-html makes of the markup
SanitizeThemeHtml(html) == [sanitized |-> html]

\* the status POST /api/themes/upload answers with
UploadStatus(file) ==
    IF file = <<>>
    THEN 400
    ELSE IF ~FileFilter(file[1]) \/ file[1].size > FileSizeLimit
    THEN 500   \* multer passes its error to the default error handler
    ELSE IF ~ThemeVerdicts[file[1].content]
    THEN 400
    ELSE 200

\* POST /api/themes/upload
Upload(file) ==
    /\ uploadResponse' = [status |-> UploadStatus(file),
                          stored |-> UploadStatus(file) = 200,
                          file |-> file]
    /\ themesDir' =
         IF file = <<>> \/ ~FileFilter(file[1])
         THEN \* multer stores nothing
              themesDir
         ELSE IF file[1].size > FileSizeLimit \/ ~ThemeVerdicts[file[1].content]
         THEN \* the file was written to THEMES_DIR/safeName; multer removes
              \* it on its error, the handler unlinks it when invalid
              [themesDir EXCEPT ![SafeName(file[1].originalname)] = <<>>]
         ELSE \* writeFile(filePath, sanitized)
              [themesDir EXCEPT ![SafeName(file[1].originalname)] =
                                    << SanitizeThemeHtml(file[1].content) >>]
    /\ UNCHANGED << currentProvider, providerResponse, queried, timerVars >>
    /\ UNCHANGED << serverVars, now, widgetVars, adapterVars, reconnectVars, orderVars, gatedVars >>

NextThemes == \E file \in UploadedFiles : Upload(file)

SpecThemes == Init /\ [][NextThemes]_vars

(***************************************************************************)
(* The multi-provider revision of the server (the second server listed in  *)
(* windows-media.js): provider selection, its poll and its greeting.       *)
(***************************************************************************)
MaxMessages == 3

\* what the selected provider reports
ProviderResults ==
    { Null, ErrorSnapshot("PowerShell error"),
      Snap("A", "X", TRUE, 0) }

\* Object.keys(providers)
AvailableProviders == {"spotify", "windows"}

\* names for which providers[name] is truthy: the own keys and the
\* properties every object inherits from Object.prototype
TruthyLookups == AvailableProviders \cup {"constructor", "toString", "__proto__"}

\* req.body.provider
ProviderNames == {"spotify", "windows", "itunes", "constructor"}

ProviderMessage(name) == [type |-> "provider", data |-> name]

\* currentTrack.title !== track?.title || currentTrack.artist !== track?.artist
TrackChanged(track) ==
    \/ currentTrack = Null
    \/ track = Null
    \/ currentTrack.title # track.title
    \/ currentTrack.artist # track.artist

\* the message pollCurrentTrack of this revision broadcasts
MultiTrackMessage(track) ==
    IF track = Null
    THEN [type |-> "track", data |-> Null]
    ELSE [type |-> "track", data |-> track, changed |-> TrackChanged(track)]

\* wss.on('connection') of this revision: greeting, then the provider
MultiConnect(c) ==
    /\ readyState[c] = "NONE"
    /\ \A b \in Conns : b < c => readyState[b] # "NONE"
    /\ clients' = clients \cup {c}
    /\ readyState' = [readyState EXCEPT ![c] = "OPEN"]
    /\ inbox' = [inbox EXCEPT ![c] = @ \o Greeting \o << ProviderMessage(currentProvider) >>]
    /\ UNCHANGED << trackerVars, pollingInterval, inFlight, nDone, ghostVars >>
    /\ UNCHANGED << pollOutcome, sendThrows, now, widgetVars, adapterVars, storeVars, reconnectVars, orderVars, gatedVars, routeVars, timerVars >>

\* pollCurrentTrack of this revision up to its await: the provider is looked
\* up; calling getCurrentTrack on a value that has none throws into the catch
MultiPollBegins ==
    IF currentProvider \in AvailableProviders
    THEN /\ queried' = Append(queried, currentProvider)
         /\ inFlight' = inFlight + 1
         /\ UNCHANGED pollOutcome
    ELSE /\ pollOutcome' = "threw"
         /\ UNCHANGED << queried, inFlight >>

\* startPolling() of this revision
MultiStartPolling ==
    /\ pollingInterval = <<>>
    /\ pollingInterval' = << nextTimer >>
    /\ activeTimers' = { nextTimer }
    /\ nextTimer' = nextTimer + 1
    /\ MultiPollBegins
    /\ UNCHANGED << trackerVars, hubVars, nDone, ghostVars, tickParity >>
    /\ UNCHANGED << sendThrows, now, widgetVars, adapterVars, storeVars, reconnectVars, orderVars, gatedVars,
                    uploadResponse, currentProvider, providerResponse >>

\* a tick of the interval timer of this revision
MultiTick ==
    /\ pollingInterval # <<>>
    /\ inFlight < MaxInFlight
    /\ nDone + inFlight < MaxPolls
    /\ MultiPollBegins
    /\ UNCHANGED << trackerVars, hubVars, pollingInterval, nDone, ghostVars, timerVars >>
    /\ UNCHANGED << sendThrows, now, widgetVars, adapterVars, storeVars, reconnectVars, orderVars, gatedVars,
                    uploadResponse, currentProvider, providerResponse >>

\* pollCurrentTrack of this revision after its await: every poll is broadcast
MultiPollReturn(track) ==
    /\ inFlight > 0
    /\ inFlight' = inFlight - 1
    /\ queried' = Tail(queried)
    /\ nDone' = nDone + 1
    /\ currentTrack' = track
    /\ inbox' = Broadcast(MultiTrackMessage(track))
    /\ pollOutcome' = "returned"
    /\ UNCHANGED << lastTrackId, lastPlayingState, lastProgressMs, clients,
                    readyState, pollingInterval, ghostVars, timerVars >>
    /\ UNCHANGED << sendThrows, now, widgetVars, adapterVars, storeVars, reconnectVars, orderVars, gatedVars,
                    uploadResponse, currentProvider, providerResponse >>

\* app.post('/api/provider')
SetProvider(name) ==
    /\ \A c \in Conns : Len(inbox[c]) < MaxMessages
    /\ IF name \in TruthyLookups
       THEN /\ currentProvider' = name
            /\ inbox' = Broadcast(ProviderMessage(name))
            /\ providerResponse' = 200
       ELSE /\ providerResponse' = 400
            /\ UNCHANGED << currentProvider, inbox >>
    /\ UNCHANGED << trackerVars, clients, readyState, pollingInterval, inFlight,
                    nDone, ghostVars, pollOutcome, timerVars >>
    /\ UNCHANGED << sendThrows, now, widgetVars, adapterVars, storeVars, reconnectVars, orderVars, gatedVars, uploadResponse, queried >>

NextProviders ==
    \/ MultiStartPolling
    \/ MultiTick
    \/ \E track \in ProviderResults : MultiPollReturn(track)
    \/ \E c \in Conns : MultiConnect(c)
    \/ \E c \in Conns : Close(c)
    \/ \E name \in ProviderNames : SetProvider(name)

SpecProviders == Init /\ [][NextProviders]_vars

(***************************************************************************)
(* Helpers of the properties.                                              *)
(***************************************************************************)
\* a poll has just completed in this step
PollCompletes == nDone' = nDone + 1

\* the last two completed polls both returned a snapshot
TwoSnapshots ==
    /\ nDone >= 2
    /\ prevTrack.kind = "snap"
    /\ currentTrack.kind = "snap"

SamePair(s, t) == s.title = t.title /\ s.artist = t.artist

\* drift of snapshot t against the expectation derived from snapshot s
DriftAfter(s, t) ==
    Abs(ActualProgress(t) - (IF s.playing THEN s.progress[1] + 1500 ELSE s.progress[1]))

IsErrorSnapshot(t) == t.kind = "snap" /\ t.error # <<>> /\ t.title = <<>>

OpenObservers == { c \in clients : readyState[c] = "OPEN" }

(***************************************************************************)
(* C1: a poll that completes while lastTrackId, lastPlayingState and       *)
(* lastProgressMs are all null (in particular the first poll) calls        *)
(* broadcast with its result, and every open observer receives exactly     *)
(* that message, whether the result is a titled track, an error snapshot   *)
(* or null.                                                                *)
(***************************************************************************)
C1_FirstPollBroadcast ==
    [][ ( /\ PollCompletes
          /\ lastTrackId = <<>>
          /\ lastPlayingState = <<>>
          /\ lastProgressMs = <<>> )
        => /\ nBroadcasts' = nBroadcasts + 1
           /\ lastBroadcast' = << TrackMessage(currentTrack') >>
           /\ \A c \in OpenObservers :
                  inbox'[c] = Append(inbox[c], TrackMessage(currentTrack')) ]_vars

C1_Witness ==
    /\ nDone = 1
    /\ currentTrack = Null
    /\ \E c \in OpenObservers : inbox[c] = << TrackMessage(Null) >>
    /\ \E c \in Conns : readyState[c] = "CLOSING" /\ inbox[c] = <<>>

(***************************************************************************)
(* C2: whenever two consecutively polled snapshots differ in their         *)
(* (title, artist) pair, the second poll is classified as a new track and  *)
(* is broadcast.                                                           *)
(***************************************************************************)
C2_PairChangeIsNewTrack ==
    ( /\ TwoSnapshots
      /\ Titled(prevTrack)
      /\ Titled(currentTrack)
      /\ ~SamePair(prevTrack, currentTrack) )
    => /\ decision.isNewTrack
       /\ decision.shouldBroadcast

(***************************************************************************)
(* C3: when two consecutively polled snapshots have the same track key and *)
(* different playing flags, the second poll is broadcast, whatever the     *)
(* progress values are.                                                    *)
(***************************************************************************)
C3_PlayPauseBroadcast ==
    ( /\ TwoSnapshots
      /\ TrackIdOf(prevTrack) = TrackIdOf(currentTrack)
      /\ prevTrack.playing # currentTrack.playing )
    => /\ decision.playStateChanged
       /\ decision.shouldBroadcast
       /\ lastBroadcast = << TrackMessage(currentTrack) >>

C3_Witness ==
    /\ TwoSnapshots
    /\ SamePair(prevTrack, currentTrack)
    /\ ~prevTrack.playing
    /\ currentTrack.playing
    /\ prevTrack.progress = currentTrack.progress
    /\ ~decision.isNewTrack
    /\ ~decision.userSeeked
    /\ decision.shouldBroadcast

C5_IdempotentRepoll ==
    /\ ( ( /\ TwoSnapshots
           /\ SamePair(prevTrack, currentTrack)
           /\ prevTrack.playing = currentTrack.playing
           /\ prevTrack.progress # <<>>
           /\ currentTrack.progress # <<>>
           /\ DriftAfter(prevTrack, currentTrack) <= 2500 )
         => ~decision.shouldBroadcast )
    /\ ( ( /\ nDone = 2
           /\ prevTrack = Snap("A", "X", TRUE, 0)
           /\ currentTrack = Snap("A", "X", TRUE, 1000) )
         => nBroadcasts = 1 )

C5_Witness ==
    /\ nDone = 2
    /\ prevTrack = Snap("A", "X", TRUE, 0)
    /\ currentTrack = Snap("A", "X", TRUE, 1000)
    /\ nBroadcasts = 1
    /\ lastBroadcast = << TrackMessage(prevTrack) >>

(***************************************************************************)
(* C6: in a run of consecutive polls returning untitled snapshots after a  *)
(* poll of a titled track, exactly one broadcast occurs, at the first poll *)
(* of the run, and none at any later poll of the run: a poll that is the   *)
(* second or a later one of such a run is not broadcast.                   *)
(***************************************************************************)
C6_OneBroadcastPerIdleRun ==
    idleRun.len >= 2 => ( ~decision.shouldBroadcast /\ idleRun.bcasts <= 1 )

(***************************************************************************)
(* C7: the first titled snapshot polled after an error snapshot is         *)
(* broadcast, whatever its playing and progress values are.                *)
(***************************************************************************)
C7_RecoveryBroadcast ==
    ( /\ TwoSnapshots
      /\ IsErrorSnapshot(prevTrack)
      /\ Titled(currentTrack) )
    => decision.shouldBroadcast

(***************************************************************************)
(* C8: a poll that finds lastPlayingState or lastProgressMs null and       *)
(* stores a non-null value for that field is broadcast.                    *)
(***************************************************************************)
C8_NullToValueBroadcast ==
    [][ ( /\ PollCompletes
          /\ \/ (lastPlayingState = <<>> /\ lastPlayingState' # <<>>)
             \/ (lastProgressMs = <<>> /\ lastProgressMs' # <<>>) )
        => /\ decision'.shouldBroadcast
           /\ nBroadcasts' = nBroadcasts + 1 ]_vars

(***************************************************************************)
(* C9: an observer that connects after a poll has completed receives at    *)
(* once, as its first message, the last snapshot that was broadcast.       *)
(* (Stated for the case that a snapshot, not null, was last polled and     *)
(* broadcast.)                                                             *)
(***************************************************************************)
C9_GreetIsLastBroadcast ==
    [][ \A c \in Conns :
          ( /\ readyState[c] = "NONE"
            /\ readyState'[c] = "OPEN"
            /\ nDone >= 1
            /\ currentTrack # Null
            /\ lastBroadcast # <<>>
            /\ lastBroadcast[1].data # Null )
          => /\ inbox'[c] # <<>>
             /\ inbox'[c][1] = lastBroadcast[1] ]_vars

(***************************************************************************)
(* C9 (amended): an observer that connects while currentTrack is set       *)
(* receives at once, as its first message, a track message carrying        *)
(* currentTrack, the snapshot of the most recently completed poll; this is *)
(* the last broadcast snapshot when that poll was broadcast.               *)
(***************************************************************************)
C9_GreetIsCurrentTrack ==
    [][ \A c \in Conns :
          ( /\ readyState[c] = "NONE"
            /\ readyState'[c] = "OPEN"
            /\ nDone >= 1
            /\ currentTrack # Null )
          => /\ inbox'[c] # <<>>
             /\ inbox'[c][1] = TrackMessage(currentTrack)
             /\ inbox'[c][1].data = currentTrack'
             /\ (decision.shouldBroadcast => inbox'[c][1] = lastBroadcast[1]) ]_vars

C9_Witness ==
    \E c \in OpenObservers :
        /\ nDone >= 2
        /\ ~decision.shouldBroadcast
        /\ inbox[c] = << TrackMessage(currentTrack) >>
        /\ lastBroadcast = << TrackMessage(prevTrack) >>
        /\ prevTrack # currentTrack

(***************************************************************************)
(* C10: on connect the new observer is sent exactly one track message      *)
(* carrying currentTrack when currentTrack is set, whether or not the poll *)
(* that produced it was broadcast, and nothing when currentTrack is not    *)
(* set, as before the first poll completes; no other observer is sent      *)
(* anything by the connect.                                                *)
(***************************************************************************)
C10_GreetOnConnect ==
    [][ \A c \in Conns :
          ( readyState[c] = "NONE" /\ readyState'[c] = "OPEN" )
          => /\ inbox[c] = <<>>
             /\ inbox'[c] = IF currentTrack # Null
                            THEN << [type |-> "track", data |-> currentTrack] >>
                            ELSE <<>>
             /\ (nDone = 0 => inbox'[c] = <<>>)
             /\ \A d \in Conns \ {c} : inbox'[d] = inbox[d] ]_vars

C10_Witness ==
    \E c \in OpenObservers : \E d \in Conns :
        /\ readyState[d] = "CLOSED"
        /\ inbox[d] = <<>>
        /\ nDone >= 2
        /\ ~decision.shouldBroadcast
        /\ inbox[c] = << TrackMessage(currentTrack) >>
        /\ lastBroadcast # << TrackMessage(currentTrack) >>

(***************************************************************************)
(* C11: no two executions of pollCurrentTrack are in flight at the same    *)
(* time: at most one poll awaits the adapter.                              *)
(***************************************************************************)
C11_PollsSerialized == inFlight <= 1

(***************************************************************************)
(* C12: when the adapter call of a poll throws, the poll ends in the catch *)
(* block of pollCurrentTrack: nothing is sent to any observer, lastTrackId,*)
(* lastPlayingState, lastProgressMs and currentTrack keep their values and *)
(* the interval timer stays armed.                                         *)
(***************************************************************************)
C12_ThrowLeavesState ==
    [][ ( inFlight' = inFlight - 1 /\ pollOutcome' = "threw" )
        => /\ lastTrackId' = lastTrackId
           /\ lastPlayingState' = lastPlayingState
           /\ lastProgressMs' = lastProgressMs
           /\ currentTrack' = currentTrack
           /\ inbox' = inbox
           /\ nBroadcasts' = nBroadcasts
           /\ lastBroadcast' = lastBroadcast
           /\ nDone' = nDone
           /\ pollingInterval' = pollingInterval ]_vars

C12_Witness ==
    /\ pollOutcome = "threw"
    /\ nDone >= 1
    /\ currentTrack = Snap("A", "X", TRUE, 0)
    /\ lastTrackId = << "A-X" >>
    /\ \E c \in OpenObservers : inbox[c] = << TrackMessage(currentTrack) >>

(***************************************************************************)
(* C13: when the send to one observer throws during a broadcast, every     *)
(* other open observer in the client set still receives that message.      *)
(***************************************************************************)
C13_SendFailureIsolated ==
    [][ ( PollCompletes /\ decision'.shouldBroadcast )
        => \A c \in OpenObservers \ sendThrows :
               inbox'[c] = Append(inbox[c], TrackMessage(currentTrack')) ]_vars

\* no message is handled by the widget in this step
NoPush ==
    /\ wCurrentTrack' = wCurrentTrack
    /\ syncedProgressMs' = syncedProgressMs
    /\ syncedAtTime' = syncedAtTime
    /\ wIsPlaying' = wIsPlaying
    /\ idleShown' = idleShown

\* the widget has synced to a titled snapshot and shows it
Synced == wCurrentTrack # Null /\ syncedAtTime # 0 /\ ~idleShown

(***************************************************************************)
(* C14: for a connected observer that has handled every message sent to    *)
(* it, a poll that returns the unchanged playing track with a progress     *)
(* more than 2500 ms away from the position the observer extrapolates is   *)
(* broadcast, so that the observer re-baselines to it.  (Stated for a poll *)
(* that runs alone, at least one polling interval after the observer's     *)
(* last re-baseline.)                                                      *)
(***************************************************************************)
C14_DriftIsCorrected ==
    [][ ( /\ PollCompletes
          /\ inFlight = 1
          /\ now >= syncedAtTime + PollIntervalMs
          /\ 1 \in OpenObservers
          /\ wRead = Len(inbox[1])
          /\ Synced
          /\ wIsPlaying
          /\ wCurrentTrack = currentTrack
          /\ Titled(currentTrack')
          /\ currentTrack'.playing
          /\ SamePair(currentTrack, currentTrack')
          /\ Abs(ActualProgress(currentTrack') - GetCurrentProgress) > SeekThresholdMs )
        => /\ decision'.shouldBroadcast
           /\ inbox'[1] = Append(inbox[1], TrackMessage(currentTrack')) ]_vars

(***************************************************************************)
(* C15: after a re-baseline with playing = true and while no further push  *)
(* arrives, the displayed position never decreases as time passes and      *)
(* never exceeds the duration of the track.                                *)
(***************************************************************************)
C15_MonotoneWhilePlaying ==
    [][ ( Synced /\ wIsPlaying /\ NoPush /\ now' >= now )
        => /\ GetCurrentProgress' >= GetCurrentProgress
           /\ GetCurrentProgress' <= DurationOr0(wCurrentTrack)
           /\ GetCurrentProgress <= DurationOr0(wCurrentTrack) ]_vars

C15_Witness ==
    /\ Synced
    /\ wIsPlaying
    /\ wCurrentTrack.duration = <<3000>>
    /\ syncedProgressMs = 1000
    /\ shownProgress = 2500
    /\ now = syncedAtTime + 3000
    /\ GetCurrentProgress = 3000

(***************************************************************************)
(* C16: after a re-baseline with playing = false and while no further push *)
(* arrives, the displayed position is the synced progress at every later   *)
(* time.                                                                   *)
(***************************************************************************)
C16_StableWhilePaused ==
    [][ ( Synced /\ ~wIsPlaying /\ NoPush )
        => /\ GetCurrentProgress' = GetCurrentProgress
           /\ GetCurrentProgress' = syncedProgressMs ]_vars

C16_Witness ==
    /\ Synced
    /\ ~wIsPlaying
    /\ ~wCurrentTrack.playing
    /\ syncedProgressMs = 1000
    /\ now >= syncedAtTime + 2000
    /\ shownProgress = 1000
    /\ GetCurrentProgress = 1000

(***************************************************************************)
(* C17: immediately after updateTrack has processed a pushed snapshot with *)
(* a title (no time has elapsed), getCurrentProgress() equals the progress *)
(* of the snapshot, whatever its playing flag, also when its duration is 0 *)
(* or absent.  (Stated for snapshots whose progress does not exceed a      *)
(* known duration.)                                                        *)
(***************************************************************************)
C17_RebaselineShowsProgress ==
    ( /\ Synced
      /\ now = syncedAtTime
      /\ wIsPlaying = wCurrentTrack.playing
      /\ \/ DurationOr0(wCurrentTrack) = 0
         \/ ActualProgress(wCurrentTrack) <= DurationOr0(wCurrentTrack) )
    => GetCurrentProgress = ActualProgress(wCurrentTrack)

(***************************************************************************)
(* C18: while the current track's duration is 0 or absent and the track is *)
(* playing, the displayed position is the synced progress plus the time    *)
(* elapsed since the sync, clamped only to be non-negative.                *)
(***************************************************************************)
C18_UnknownDurationUnclamped ==
    ( Synced /\ wIsPlaying /\ DurationOr0(wCurrentTrack) = 0 )
    => GetCurrentProgress = Max(0, syncedProgressMs + (now - syncedAtTime))

(***************************************************************************)
(* C19: whenever the current track's duration is known and nonzero, the    *)
(* displayed position lies in [0, duration], playing or paused.            *)
(***************************************************************************)
C19_DisplayedWithinDuration ==
    ( wCurrentTrack # Null /\ DurationOr0(wCurrentTrack) > 0 )
    => /\ GetCurrentProgress >= 0
       /\ GetCurrentProgress <= DurationOr0(wCurrentTrack)

(***************************************************************************)
(* C20: getCurrentTrack of every source adapter never rejects, and on any  *)
(* internal failure (exec failure or timeout, stderr-only output,          *)
(* unparseable output, HTTP error, failed token refresh) it resolves to a  *)
(* snapshot with playing = false and the error field set.                  *)
(***************************************************************************)
C20_FailureIsErrorSnapshot ==
    adapterResult.outcome # "none"
    => /\ adapterResult.outcome = "resolved"
       /\ adapterResult.failure
          => /\ adapterResult.value.kind = "snap"
             /\ ~adapterResult.value.playing
             /\ adapterResult.value.error # <<>>

(***************************************************************************)
(* C21: the observer shows the idle state exactly when the track message   *)
(* it received last carried data null or a snapshot without a title (each  *)
(* received message sets the idle display accordingly and nothing else     *)
(* changes it), and while the idle state is shown isPlaying is false.      *)
(***************************************************************************)
C21_IdleIffUntitled ==
    /\ [](idleShown => ~wIsPlaying)
    /\ [][ /\ \A track \in WidgetPushes :
                WidgetReceive(track) => (idleShown' <=> ~Titled(track))
           /\ (~ \E track \in WidgetPushes : WidgetReceive(track))
                => idleShown' = idleShown ]_vars

C21_Witness ==
    /\ idleShown
    /\ ~wIsPlaying
    /\ wCurrentTrack # Null
    /\ wCurrentTrack.playing
    /\ syncedAtTime < now

\* a script element with a src attribute, as a browser reads it: whitespace
\* may stand between the attribute name and the equals sign
HasExternalScriptTag(html) ==
    \E i \in 1..Len(html) :
        /\ MatchesAt(html, i, "<script")
        /\ \E j \in (i + 7)..Len(html) :
              /\ MatchesAt(html, j, "src")
              /\ \A k \in (i + 7)..(j - 1) : Ch(html, k) # ">"
              /\ LET e == SpaceEnd(html, j + 3)
                 IN e <= Len(html) /\ Ch(html, e) = "="

(***************************************************************************)
(* C22: an uploaded theme file is accepted only if it contains all ten     *)
(* required element ids and no external script tag, no inline event        *)
(* handler and no javascript: URL; every other uploaded theme is answered  *)
(* with status 400.  (Stated for HTML files within the size limit.)        *)
(***************************************************************************)
C22_AcceptedOnlyIfSafe ==
    ( /\ uploadResponse.status # 0
      /\ uploadResponse.file # <<>>
      /\ FileFilter(uploadResponse.file[1])
      /\ uploadResponse.file[1].size <= FileSizeLimit )
    => LET html == uploadResponse.file[1].content
           safe == /\ ContainsRequiredIds(html)
                   /\ ~HasExternalScriptTag(html)
                   /\ ~OnHandlerPattern(html)
                   /\ ~JavascriptPattern(html)
       IN /\ uploadResponse.status = 200 => safe
          /\ ~safe => uploadResponse.status = 400

(***************************************************************************)
(* C23: in the multi-provider server POST /api/provider with a name that   *)
(* is not an available provider leaves currentProvider unchanged,          *)
(* broadcasts nothing and answers 400; with an available name it sets      *)
(* currentProvider, broadcasts a provider message to every open observer   *)
(* and answers 200; a poll started afterwards queries currentProvider.     *)
(***************************************************************************)
C23_ProviderSelection ==
    [][ /\ \A name \in ProviderNames :
             SetProvider(name)
             => IF name \in AvailableProviders
                THEN /\ currentProvider' = name
                     /\ providerResponse' = 200
                     /\ \A c \in OpenObservers :
                            inbox'[c] = Append(inbox[c], ProviderMessage(name))
                ELSE /\ currentProvider' = currentProvider
                     /\ providerResponse' = 400
                     /\ inbox' = inbox
        /\ Len(queried') > Len(queried)
             => queried'[Len(queried')] = currentProvider ]_vars

(***************************************************************************)
(* C24: after every poll whose adapter call returns, lastTrackId,          *)
(* lastPlayingState and lastProgressMs hold the values derived from the    *)
(* snapshot of that poll, which is currentTrack, whether or not the poll   *)
(* was judged significant.                                                 *)
(***************************************************************************)
C24_StateAlwaysUpdated ==
    [][ PollCompletes
        => /\ lastTrackId' = TrackIdOf(currentTrack')
           /\ lastPlayingState' =
                 IF currentTrack' = Null THEN <<>> ELSE << currentTrack'.playing >>
           /\ lastProgressMs' =
                 IF currentTrack' = Null THEN <<>> ELSE currentTrack'.progress ]_vars

C24_Witness ==
    /\ nDone >= 2
    /\ ~decision.shouldBroadcast
    /\ prevTrack = Snap("A", "X", TRUE, 0)
    /\ currentTrack = Snap("A", "X", TRUE, 1000)
    /\ lastBroadcast = << TrackMessage(prevTrack) >>
    /\ lastProgressMs = << 1000 >>

(***************************************************************************)
(* C25: each broadcast sends the same message exactly once to every        *)
(* connection of the client set whose state is OPEN at that moment and     *)
(* nothing to the connections that are not open, and the poll that         *)
(* broadcasts ends without an error.                                       *)
(***************************************************************************)
C25_BroadcastToOpenOnly ==
    [][ ( PollCompletes /\ decision'.shouldBroadcast )
        => /\ \A c \in Conns :
                 inbox'[c] = IF c \in clients /\ readyState[c] = "OPEN"
                             THEN Append(inbox[c], lastBroadcast'[1])
                             ELSE inbox[c]
           /\ lastBroadcast' = << TrackMessage(currentTrack') >>
           /\ pollOutcome' = "returned" ]_vars

C25_Witness ==
    /\ clients = {1, 2}
    /\ readyState[1] = "CLOSING"
    /\ readyState[2] = "OPEN"
    /\ nBroadcasts = 1
    /\ pollOutcome = "returned"
    /\ inbox[1] = <<>>
    /\ inbox[2] = lastBroadcast

(***************************************************************************)
(* C26: the client set always equals the set of connections that have      *)
(* fired 'connection' and have not yet fired 'close'; a connection that    *)
(* has closed is not in the set and nothing is sent to it afterwards.      *)
(***************************************************************************)
C26_ClientsAreLiveConnections ==
    /\ [](clients = { c \in Conns : readyState[c] \in {"OPEN", "CLOSING"} })
    /\ [][ \A c \in Conns :
             readyState[c] = "CLOSED"
             => /\ c \notin clients'
                /\ inbox'[c] = inbox[c] ]_vars

C26_Witness ==
    /\ readyState[1] = "CLOSED"
    /\ readyState[2] = "OPEN"
    /\ clients = {2}
    /\ nBroadcasts = 2
    /\ Len(inbox[1]) = 1
    /\ inbox[2] = inbox[1] \o lastBroadcast

(***************************************************************************)
(* C27: after any number of calls of startPolling exactly one interval     *)
(* timer is armed, the one held in pollingInterval: the old timer is       *)
(* cleared before the new one is created.                                  *)
(***************************************************************************)
C27_OneTimer ==
    /\ Cardinality(activeTimers) <= 1
    /\ pollingInterval = <<>> <=> activeTimers = {}
    /\ pollingInterval # <<>> => activeTimers = { pollingInterval[1] }

C27_Witness ==
    /\ nextTimer = 4
    /\ pollingInterval = << 3 >>
    /\ activeTimers = {3}
    /\ inFlight = 2

(***************************************************************************)
(* C28: polling never stops once started: the timer stays armed and after  *)
(* every poll start another poll is started later, also when an earlier    *)
(* poll threw, returned an error snapshot or never returned.               *)
(***************************************************************************)
C28_PollingNeverStops ==
    /\ [](pollingInterval # <<>> => activeTimers # {})
    /\ [][pollingInterval # <<>> => pollingInterval' # <<>>]_vars
    /\ (pollingInterval # <<>> /\ tickParity = 0) ~> (tickParity = 1)
    /\ (pollingInterval # <<>> /\ tickParity = 1) ~> (tickParity = 0)

C28_Witness ==
    /\ pollOutcome = "threw"
    /\ IsErrorSnapshot(currentTrack)
    /\ inFlight = MaxInFlight
    /\ nDone = MaxPolls
    /\ tickParity = 1

(***************************************************************************)
(* C29: every call of SpotifyProvider.getCurrentTrack eventually returns a *)
(* snapshot, also when the API keeps answering 401 after each successful   *)
(* token refresh.                                                          *)
(***************************************************************************)
C29_SpotifyCallReturns ==
    (adapterResult.outcome = "pending") ~> (adapterResult.outcome = "resolved")

(***************************************************************************)
(* C30: in the primary renderer every received track message with a title  *)
(* sets syncedProgressMs to the progress of the snapshot (0 if absent),    *)
(* syncedAtTime to the current time, isPlaying to its playing flag and     *)
(* currentTrack to the snapshot, however close the renderer's own position *)
(* already is.                                                             *)
(***************************************************************************)
C30_AlwaysRebaseline ==
    [][ \A track \in WidgetPushes :
          ( Titled(track) /\ WidgetReceive(track) )
          => /\ syncedProgressMs' = ActualProgress(track)
             /\ syncedAtTime' = now
             /\ wIsPlaying' = track.playing
             /\ wCurrentTrack' = track ]_vars

C30_Witness ==
    /\ Synced
    /\ wIsPlaying
    /\ wCurrentTrack.duration = << 3000 >>
    /\ shownProgress = 500
    /\ syncedProgressMs = 1000
    /\ syncedAtTime = StartTime + 1000
    /\ now = syncedAtTime

(***************************************************************************)
(* C31: in the drift-gated renderer a received titled snapshot whose       *)
(* playing flag differs from the playing flag of the previously received   *)
(* snapshot re-baselines: syncedProgressMs becomes the progress of the     *)
(* snapshot and syncedAtTime becomes the current time.                     *)
(***************************************************************************)
C31_PlayFlagChangeRebaselines ==
    [][ \A track \in WidgetPushes :
          ( /\ Titled(track)
            /\ wCurrentTrack # Null
            /\ ~idleShown
            /\ wCurrentTrack.playing # track.playing
            /\ GatedReceive(track) )
          => /\ syncedProgressMs' = ActualProgress(track)
             /\ syncedAtTime' = now ]_vars

(***************************************************************************)
(* C32: a render tick changes no renderer state: syncedProgressMs,         *)
(* syncedAtTime, isPlaying and currentTrack are as before it, and the      *)
(* value it displays is the value computed from that baseline and the      *)
(* current time, however many ticks ran before.                            *)
(***************************************************************************)
C32_RenderTickIsPure ==
    [][ RenderTick
        => /\ UNCHANGED << syncedProgressMs, syncedAtTime, wIsPlaying, wCurrentTrack >>
           /\ shownProgress' = GetCurrentProgress' ]_vars

C32_Witness ==
    /\ Synced
    /\ wIsPlaying
    /\ wCurrentTrack.duration = << 3000 >>
    /\ syncedProgressMs = 1000
    /\ now = syncedAtTime + 1500
    /\ shownProgress = 2500

(***************************************************************************)
(* C33: on every connection the track messages arrive in the order the     *)
(* server sent them, which is the order in which the polls completed: a    *)
(* step leaves what a connection was sent as it is or puts one message     *)
(* after all earlier ones, that message carries the result the server      *)
(* holds at that moment (the result of the poll that just completed, or    *)
(* the current track for a greeting), and the widget handles the messages  *)
(* of its connection one by one in that order.                             *)
(***************************************************************************)
C33_MessagesInSendOrder ==
    [][ /\ \A c \in Conns :
             \/ inbox'[c] = inbox[c]
             \/ inbox'[c] = Append(inbox[c], TrackMessage(currentTrack'))
        /\ wRead' # wRead
           => /\ wRead' = wRead + 1
              /\ wCurrentTrack' = inbox[1][wRead'].data ]_vars

C33_Witness ==
    /\ nDone = 2
    /\ Len(inbox[1]) = 2
    /\ inbox[1][1].data.progress = << 0 >>
    /\ inbox[1][2].data.progress = << 10000 >>
    /\ wRead = 2
    /\ wCurrentTrack = currentTrack

AgreeButProgress(s, t) ==
    \/ s = Null /\ t = Null
    \/ /\ s # Null
       /\ t # Null
       /\ s.title = t.title
       /\ s.artist = t.artist
       /\ s.playing = t.playing
       /\ s.duration = t.duration

(***************************************************************************)
(* C35: between polls, with every sent message delivered, the snapshot     *)
(* each connected observer received last agrees with the server's          *)
(* currentTrack on every field other than progress (title, artist,         *)
(* playing, duration, albumArt).                                           *)
(***************************************************************************)
C35_ObserversAgreeWithServer ==
    \A c \in OpenObservers :
        inbox[c] # <<>>
        => AgreeButProgress(inbox[c][Len(inbox[c])].data, currentTrack)

(***************************************************************************)
(* C36: poll results are applied in the order the polls were started:      *)
(* currentTrack and the comparison state are never overwritten with the    *)
(* result of a poll that started earlier than the poll whose result they   *)
(* hold.                                                                   *)
(***************************************************************************)
C36_AppliedInStartOrder ==
    [][ holds' >= holds ]_vars

(***************************************************************************)
(* C37: every close of the widget's WebSocket schedules exactly one        *)
(* reconnect attempt, also the close that ends a failed attempt, so that   *)
(* exactly one attempt is pending or one socket is live at any time; a     *)
(* widget whose connection dropped is eventually connected again once the  *)
(* server accepts connections, and has then handled what the server sent   *)
(* on the new connection, first of all the greeting carrying the server's  *)
(* current snapshot when it holds one.                                     *)
(***************************************************************************)
C37_WidgetReconnects ==
    /\ [][ (wsState # "closed" /\ wsState' = "closed")
           => reconnectTimers' = reconnectTimers + 1 ]_vars
    /\ [](reconnectTimers = IF wsState = "closed" THEN 1 ELSE 0)
    /\ [][ \A c \in Conns :
             (wsState = "connecting" /\ wsState' = "open" /\ wConn' = c)
             => inbox'[c] = IF currentTrack # Null
                            THEN << TrackMessage(currentTrack) >>
                            ELSE <<>> ]_vars
    /\ (wsState = "closed")
          ~> (wsState = "open" /\ wHandled = Len(inbox[wConn]))

C37_Witness ==
    /\ wsState = "open"
    /\ wConn = 2
    /\ attemptFailed
    /\ wHandled = 1
    /\ inbox[2] = << TrackMessage(currentTrack) >>
    /\ wCurrentTrack = currentTrack

(***************************************************************************)
(* C38: a track message with null data or with a snapshot without a title  *)
(* shows the idle display and sets isPlaying to false, and leaves          *)
(* currentTrack, syncedProgressMs and syncedAtTime as they were.           *)
(***************************************************************************)
C38_IdleKeepsBaseline ==
    [][ \A track \in WidgetPushes :
          ( ~Titled(track) /\ WidgetReceive(track) )
          => /\ idleShown'
             /\ ~wIsPlaying'
             /\ UNCHANGED << wCurrentTrack, syncedProgressMs, syncedAtTime,
                             shownProgress >> ]_vars

C38_Witness ==
    /\ idleShown
    /\ ~wIsPlaying
    /\ wCurrentTrack # Null
    /\ wCurrentTrack.playing
    /\ syncedProgressMs = 1000
    /\ syncedAtTime = StartTime + 500
    /\ now = StartTime + 1500

(***************************************************************************)
(* C39: a theme upload that validation rejects leaves the stored themes,   *)
(* their set and their contents, exactly as they were, also when a stored  *)
(* theme has the same sanitized file name as the rejected upload.          *)
(***************************************************************************)
C39_RejectedUploadKeepsStore ==
    [][ \A file \in UploadedFiles :
          ( /\ file # <<>>
            /\ FileFilter(file[1])
            /\ file[1].size <= FileSizeLimit
            /\ ~ThemeVerdicts[file[1].content]
            /\ Upload(file) )
          => themesDir' = themesDir ]_vars

TypeOK ==
    /\ currentTrack \in PollResults \cup TimelineResults
    /\ inFlight \in 0..MaxInFlight
    /\ nDone \in 0..MaxPolls
    /\ clients \subseteq Conns
====
